---- MODULE Spec2Model ----
(***************************************************************************)
(* A model of well-rng (src/rng.js): the WELL-1024a generator object with  *)
(* its 32-word state vector, state pointer and bit cache, the caller's     *)
(* arrays it copies from and to, and the extraction calls.                 *)
(*                                                                         *)
(* JavaScript arrays are objects on a heap, held by reference; a           *)
(* Generator's _state field and the caller's variable arr are references.  *)
(* Words are JavaScript numbers holding 32-bit two's-complement integers;  *)
(* the bitwise operators work on their bit patterns, modelled as the set   *)
(* of positions (0..31) of the bits that are set.                          *)
(***************************************************************************)
EXTENDS Integers, Sequences, FiniteSets, TLC

VARIABLES
    heap,     \* reference -> array object (index -> number)
    rng,      \* generator name -> the WELL object's fields
    arr,      \* the caller's array variable (a reference)
    last,     \* the most recent operation: its arguments, result and pre-state
    ins,      \* per generator: the calls served since it was constructed/imported
    outs,     \* per generator: the values those calls returned
    phase,    \* position of the calling program
    calls     \* operations performed in the current phase

vars == <<heap, rng, arr, last, ins, outs, phase, calls>>

Gens == {"G", "H"}

-----------------------------------------------------------------------------
(* 32-bit words and the bitwise operators of JavaScript                     *)

MinInt32 == -2147483647 - 1

\* WELL.prototype.positive_mask = Math.pow(2, 31) - 1
positive_mask == 2147483647

\* The bit pattern of the int32 x: the positions of its set bits.
ToBits(x) ==
    IF x = 0 THEN {}
    ELSE LET u == IF x < 0 THEN x - MinInt32 ELSE x
         IN  {i \in 0..30 : (u \div (2^i)) % 2 = 1} \cup (IF x < 0 THEN {31} ELSE {})

RECURSIVE SumPow(_)
SumPow(s) ==
    IF s = {} THEN 0
    ELSE LET i == CHOOSE j \in s : TRUE IN (2^i) + SumPow(s \ {i})

\* The int32 value of a bit pattern (bit 31 is the sign bit).
FromBits(s) ==
    LET low == SumPow(s \ {31})
    IN  IF 31 \in s THEN (low - 2147483647) - 1 ELSE low

\* a ^ b
Xor(a, b) == (a \ b) \cup (b \ a)

\* a & b
And(a, b) == a \cap b

\* a << k : bits shifted past position 31 are discarded
Shl(a, k) == {i + (k % 32) : i \in a} \cap (0..31)

\* a >>> k : the zero-filling right shift
Sar_logical(a, k) == {i - (k % 32) : i \in {j \in a : j >= k % 32}}

\* a >> k : the sign-propagating right shift
Sar(a, k) ==
    {i - (k % 32) : i \in {j \in a : j >= k % 32}}
        \cup (IF 31 \in a THEN (32 - (k % 32))..31 ELSE {})

\* x & 31 on an int32 x: the low five bits, i.e. x modulo 32
And31(x) == x % 32

-----------------------------------------------------------------------------
(* JavaScript values and arrays                                             *)

Undefined == [t |-> "undefined"]
Num(v) == [t |-> "number", v |-> v]

\* sp || 0
OrZero(sp) == IF sp.t = "number" /\ sp.v # 0 THEN sp.v ELSE 0

\* array.length: one more than the largest array index in use
Length(a) ==
    LET idx == {i \in DOMAIN a : i >= 0}
    IN  IF idx = {} THEN 0 ELSE (CHOOSE m \in idx : \A i \in idx : i <= m) + 1

\* array.slice(0): a new array with the elements (not other properties such as "-1")
slice(a) == [i \in {j \in DOMAIN a : j >= 0} |-> a[i]]

\* a[i] read as an operand of a bitwise operator: a missing entry is undefined, i.e. 0
Get(a, i) == IF i \in DOMAIN a THEN a[i] ELSE 0

\* a[i] = v
Put(a, i, v) == [j \in (DOMAIN a) \cup {i} |-> IF j = i THEN v ELSE a[j]]

\* the reference a newly created array gets
Alloc(h) == CHOOSE r \in 1..(Cardinality(DOMAIN h) + 1) :
                r \notin DOMAIN h /\ \A q \in 1..(r - 1) : q \in DOMAIN h

New(h, a) == [r \in (DOMAIN h) \cup {Alloc(h)} |-> IF r \in DOMAIN h THEN h[r] ELSE a]

-----------------------------------------------------------------------------
(* The generator object (function WELL and WELL.prototype)                  *)

\* An object whose fields are not assigned yet. A field never assigned reads
\* as undefined, which the bitwise operators take as 0.
Fresh == [_state |-> 0, _n |-> 0, next_bit |-> 0, bit_state |-> 0]

\* WELL.prototype.genstate: 32 entries, each 0 | (Math.random() * 2^32); draws
\* holds the 32 int32 values the host's Math.random() yields.
genstate(draws) == [i \in 0..31 |-> draws[i]]

\* get_state returning the internal array itself
get_state_alias(h, this) ==
    [heap |-> h, this |-> this, ret |-> this._state, threw |-> FALSE]

\* WELL.prototype.get_state: this._state.slice(0)
get_state(h, this) ==
    [heap |-> New(h, slice(h[this._state])), this |-> this,
     ret |-> Alloc(h), threw |-> FALSE]

\* set_state assigning the pointer before it checks the length
set_state_late_check(h, this, state, sp) ==
    IF Length(h[state]) # 32
    THEN [heap |-> h, this |-> [this EXCEPT !._n = OrZero(sp)],
          ret |-> Undefined, threw |-> TRUE]
    ELSE [heap |-> New(h, slice(h[state])),
          this |-> [this EXCEPT !._n = OrZero(sp), !._state = Alloc(h)],
          ret |-> Undefined, threw |-> FALSE]

\* set_state repairing a degenerate all-zero vector by setting its first word
set_state_repair(h, this, state, sp) ==
    IF Length(h[state]) # 32
    THEN [heap |-> h, this |-> this, ret |-> Undefined, threw |-> TRUE]
    ELSE [heap |-> New(h, IF \A i \in 0..31 : h[state][i] = 0
                          THEN Put(slice(h[state]), 0, 1) ELSE slice(h[state])),
          this |-> [this EXCEPT !._n = OrZero(sp), !._state = Alloc(h)],
          ret |-> Undefined, threw |-> FALSE]

\* WELL.prototype.set_state(state, sp)
set_state(h, this, state, sp) ==
    IF Length(h[state]) # 32
    THEN [heap |-> h, this |-> this, ret |-> Undefined, threw |-> TRUE]
    ELSE [heap |-> New(h, slice(h[state])),
          this |-> [this EXCEPT !._n = OrZero(sp), !._state = Alloc(h)],
          ret |-> Undefined, threw |-> FALSE]

\* function WELL(state): hasState is FALSE when the argument is omitted (falsy),
\* and then draws is what genstate() draws. A throw leaves no object.
\* r is what this.set_state(state, 0) did.
Constructed(h, old, r) ==
    IF r.threw
    THEN [heap |-> h, this |-> old, ret |-> Undefined, threw |-> TRUE]
    ELSE [heap |-> r.heap, this |-> [r.this EXCEPT !.next_bit = 32],
          ret |-> Undefined, threw |-> FALSE]

WELL(h, old, hasState, state, draws) ==
    Constructed(h, old,
        set_state(IF hasState THEN h ELSE New(h, genstate(draws)), Fresh,
                  IF hasState THEN state ELSE Alloc(h), Num(0)))

\* rand returning the raw word whatever incNeg is
Output_unmasked(h, this, incNeg) ==
    [heap |-> h, this |-> this, ret |-> h[this._state][this._n], threw |-> FALSE]

\* return (incNeg ? _state[_n] : (_state[_n] & WELL.prototype.positive_mask))
Output(h, this, incNeg) ==
    [heap |-> h, this |-> this,
     ret  |-> IF incNeg THEN h[this._state][this._n]
              ELSE FromBits(And(ToBits(h[this._state][this._n]), ToBits(positive_mask))),
     threw |-> FALSE]

\* rand reading its first tap one slot further (M1 = 4)
rand_tap4(h, this, incNeg) ==
    LET _state == h[this._state]
        _n   == this._n
        z0   == ToBits(Get(_state, And31(_n + 31)))
        v_m1 == ToBits(Get(_state, And31(_n + 4)))
        v_m2 == ToBits(Get(_state, And31(_n + 24)))
        v_m3 == ToBits(Get(_state, And31(_n + 10)))
        z1   == Xor(z0, Xor(v_m1, Sar(v_m1, 8)))
        z2   == Xor(Xor(Xor(v_m2, Shl(v_m2, 19)), v_m3), Shl(v_m3, 14))
        s1   == Put(_state, _n, FromBits(Xor(z1, z2)))
        n1   == And31(_n + 31)
        out  == Xor(Xor(Xor(Xor(Xor(z0, Shl(z0, 11)), z1), Shl(z1, 7)), z2), Shl(z2, 13))
        s2   == Put(s1, n1, FromBits(out))
    IN  Output([h EXCEPT ![this._state] = s2], [this EXCEPT !._n = n1], incNeg)

\* rand moving the pointer forward instead of backward
rand_forward(h, this, incNeg) ==
    LET _state == h[this._state]
        _n   == this._n
        z0   == ToBits(Get(_state, And31(_n + 31)))
        v_m1 == ToBits(Get(_state, And31(_n + 3)))
        v_m2 == ToBits(Get(_state, And31(_n + 24)))
        v_m3 == ToBits(Get(_state, And31(_n + 10)))
        z1   == Xor(z0, Xor(v_m1, Sar(v_m1, 8)))
        z2   == Xor(Xor(Xor(v_m2, Shl(v_m2, 19)), v_m3), Shl(v_m3, 14))
        s1   == Put(_state, _n, FromBits(Xor(z1, z2)))
        n1   == And31(_n + 1)
        out  == Xor(Xor(Xor(Xor(Xor(z0, Shl(z0, 11)), z1), Shl(z1, 7)), z2), Shl(z2, 13))
        s2   == Put(s1, n1, FromBits(out))
    IN  Output([h EXCEPT ![this._state] = s2], [this EXCEPT !._n = n1], incNeg)

\* WELL.prototype.rand(incNeg)
rand(h, this, incNeg) ==
    LET _state == h[this._state]
        _n   == this._n
        z0   == ToBits(Get(_state, And31(_n + 31)))
        v_m1 == ToBits(Get(_state, And31(_n + 3)))
        v_m2 == ToBits(Get(_state, And31(_n + 24)))
        v_m3 == ToBits(Get(_state, And31(_n + 10)))
        z1   == Xor(z0, Xor(v_m1, Sar(v_m1, 8)))
        z2   == Xor(Xor(Xor(v_m2, Shl(v_m2, 19)), v_m3), Shl(v_m3, 14))
        s1   == Put(_state, _n, FromBits(Xor(z1, z2)))
        n1   == And31(_n + 31)
        out  == Xor(Xor(Xor(Xor(Xor(z0, Shl(z0, 11)), z1), Shl(z1, 7)), z2), Shl(z2, 13))
        s2   == Put(s1, n1, FromBits(out))
    IN  Output([h EXCEPT ![this._state] = s2], [this EXCEPT !._n = n1], incNeg)

\* WELL.prototype.random(incNeg): rand(incNeg) * scale with scale = 1 / (2^31 - 1).
\* The product is kept as the pair (num, den) standing for num * (1 / den).
random(h, this, incNeg) ==
    [rand(h, this, incNeg) EXCEPT !.ret = [num |-> @, den |-> positive_mask]]

\* x % y of JavaScript: the remainder takes the sign of the dividend
Rem(x, y) ==
    LET ay == IF y < 0 THEN -y ELSE y
        m  == x % ay
    IN  IF x >= 0 \/ m = 0 THEN m ELSE m - ay

\* randInt reducing the signed word
randInt_signed(h, this, a, b) ==
    LET dist == 1 + b - a
    IN  [rand(h, this, TRUE) EXCEPT !.ret = Rem(@, dist) + a]

\* WELL.prototype.randInt(a, b)
randInt(h, this, a, b) ==
    LET dist == 1 + b - a
    IN  [rand(h, this, FALSE) EXCEPT !.ret = Rem(@, dist) + a]

\* (1 << bits) - 1 as the operand of &: its int32 bit pattern
MaskBits(bits) ==
    LET one == Shl({0}, bits)
    IN  IF 31 \in one THEN 0..30 ELSE ToBits(FromBits(one) - 1)

\* the chunk returned without the mask
Chunk_unmasked(h, this, unshift, bits) ==
    [heap |-> h, this |-> this,
     ret  |-> FromBits(Sar(ToBits(this.bit_state), unshift)),
     threw |-> FALSE]

\* return (this.bit_state >> unshift) & mask
Chunk(h, this, unshift, bits) ==
    [heap |-> h, this |-> this,
     ret  |-> FromBits(And(Sar(ToBits(this.bit_state), unshift), MaskBits(bits))),
     threw |-> FALSE]

\* this.bit_state = rand(true); this.next_bit = bits  (r is what rand did)
Refill(r, bits) ==
    Chunk(r.heap, [r.this EXCEPT !.bit_state = r.ret, !.next_bit = bits], 0, bits)

\* randBits refilling already when the request ends exactly at bit 32
randBits_strict(h, this, bits) ==
    IF bits + this.next_bit < 32
    THEN Chunk(h, [this EXCEPT !.next_bit = @ + bits], this.next_bit, bits)
    ELSE Refill(rand(h, this, TRUE), bits)

\* randBits testing the offset alone, not the end of the request
randBits_overrun(h, this, bits) ==
    IF this.next_bit < 32
    THEN Chunk(h, [this EXCEPT !.next_bit = @ + bits], this.next_bit, bits)
    ELSE Refill(rand(h, this, TRUE), bits)

\* randBits shifting by the offset after it was advanced
randBits_late_offset(h, this, bits) ==
    IF bits + this.next_bit <= 32
    THEN Chunk(h, [this EXCEPT !.next_bit = @ + bits], this.next_bit + bits, bits)
    ELSE Refill(rand(h, this, TRUE), bits)

\* WELL.prototype.randBits(bits)
randBits(h, this, bits) ==
    IF bits + this.next_bit <= 32
    THEN Chunk(h, [this EXCEPT !.next_bit = @ + bits], this.next_bit, bits)
    ELSE Refill(rand(h, this, TRUE), bits)

-----------------------------------------------------------------------------
(* The inputs the calling program draws from                                *)

ZeroVec == [i \in 0..31 |-> 0]

With(v, i, w) == [v EXCEPT ![i] = w]

\* all zero except word 3 = 1
OneVec == With(ZeroVec, 3, 1)

\* words of both signs at the slots the first steps read
MixedVec ==
    [i \in 0..31 |->
        CASE i = 0  -> 99
          [] i = 3  -> -1234567
          [] i = 10 -> 123456789
          [] i = 24 -> 77
          [] i = 31 -> -5
          [] OTHER  -> 0]

\* seeds whose first raw word is 2^31 - 1, -2^31 and -1
MaxVec == With(ZeroVec, 24, -2080890881)
MinVec == With(ZeroVec, 24, MinInt32)
AllOnesVec == With(ZeroVec, 24, 66592767)

ShortVec == [i \in 0..30 |-> 0]
LongVec == [i \in 0..32 |-> IF i = 32 THEN 7 ELSE 0]

\* a call and its arguments
CRand(incNeg)   == [op |-> "rand", incNeg |-> incNeg]
CRandom(incNeg) == [op |-> "random", incNeg |-> incNeg]
CRandInt(a, b)  == [op |-> "randInt", a |-> a, b |-> b]
CRandBits(bits) == [op |-> "randBits", bits |-> bits]
CGetState       == [op |-> "get_state"]
CSetState(state, sp) == [op |-> "set_state", state |-> state, sp |-> sp]
CNew(hasState, state, draws) ==
    [op |-> "new", hasState |-> hasState, state |-> state, draws |-> draws]

-----------------------------------------------------------------------------
(* The calling program: one call on one generator                           *)

Invoke(h, this, c) ==
    CASE c.op = "rand"      -> rand(h, this, c.incNeg)
      [] c.op = "random"    -> random(h, this, c.incNeg)
      [] c.op = "randInt"   -> randInt(h, this, c.a, c.b)
      [] c.op = "randBits"  -> randBits(h, this, c.bits)
      [] c.op = "get_state" -> get_state(h, this)
      [] c.op = "set_state" -> set_state(h, this, c.state, c.sp)
      [] c.op = "new"       -> WELL(h, this, c.hasState, c.state, c.draws)

\* what the call installs: the vector's contents and the pointer argument
Installed(h, c) ==
    IF c.op = "set_state" THEN [op |-> "set_state", state |-> h[c.state], sp |-> c.sp]
    ELSE [op |-> "new",
          state |-> IF c.hasState THEN h[c.state] ELSE genstate(c.draws)]

World == [heap |-> heap, rng |-> rng, ins |-> ins, outs |-> outs]

\* generator g has served call c in world w; r is what the call did
Served(w, g, c, r) ==
    LET installs == c.op \in {"set_state", "new"}
        val == IF c.op = "get_state" THEN r.heap[r.ret] ELSE r.ret
    IN  [heap |-> r.heap,
         rng  |-> [w.rng EXCEPT ![g] = r.this],
         ins  |-> [w.ins EXCEPT ![g] =
                    IF r.threw THEN @
                    ELSE IF installs THEN <<Installed(w.heap, c)>>
                    ELSE Append(@, c)],
         outs |-> [w.outs EXCEPT ![g] =
                    IF r.threw THEN @
                    ELSE IF installs THEN <<>>
                    ELSE Append(@, val)],
         ret |-> r.ret, threw |-> r.threw]

\* generator g serves call c in world w
Apply(w, g, c) == Served(w, g, c, Invoke(w.heap, w.rng[g], c))

\* the arrays still referenced: unreferenced arrays are garbage
Collect(h, r, a) ==
    [x \in (DOMAIN h) \cap ({r[g]._state : g \in Gens} \cup {a}) |-> h[x]]

Pre == [heap |-> heap, rng |-> rng, arr |-> arr]

\* Where the calling program goes after call c. A program that checks two
\* generators against each other ("pre", "sync", "echo") has G import, then H
\* import the same, then H repeat ("echo") every call G makes.
\* A program that hands G's state over to H ("warm", "snap") has G serve
\* calls, takes get_state() and _n from it, installs them in H and goes on as
\* above.
NextPhase(c) ==
    CASE phase = "pre" /\ c.op = "set_state" -> "echo"
      [] phase = "warm" /\ c.op = "get_state" -> "snap"
      [] phase = "snap" -> "sync"
      [] phase = "sync" -> "echo"
      [] phase = "echo" -> "sync"
      [] OTHER -> phase

NextCalls(c) ==
    CASE phase = "pre" /\ c.op = "set_state" -> 0
      [] phase = "warm" /\ c.op = "get_state" -> 0
      [] phase = "snap" -> 0
      [] phase = "echo" -> calls
      [] OTHER -> calls + 1

\* the program's step after generator g served call c, leaving world w
Step(g, c, w) ==
    LET a == IF c.op = "get_state" THEN w.ret ELSE arr
    IN  /\ heap' = Collect(w.heap, w.rng, a)
        /\ rng' = w.rng
        /\ arr' = a
        /\ ins' = w.ins
        /\ outs' = w.outs
        /\ last' = [op |-> c.op, g |-> g, args |-> c, ret |-> w.ret,
                    threw |-> w.threw, pre |-> Pre]
        /\ calls' = NextCalls(c)
        /\ phase' = NextPhase(c)

Do(g, c) == Step(g, c, Apply(World, g, c))

\* g = new WELL(arr)
Construct(g) == Do(g, CNew(TRUE, arr, ZeroVec))

\* g = new WELL()
ConstructDefault(g, draws) == Do(g, CNew(FALSE, 0, draws))

\* g.set_state(arr, sp)
SetState(g, sp) == Do(g, CSetState(arr, sp))

\* arr = g.get_state()
GetState(g) == Do(g, CGetState)

Rand(g, incNeg) == Do(g, CRand(incNeg))

Random(g, incNeg) == Do(g, CRandom(incNeg))

RandInt(g, a, b) == Do(g, CRandInt(a, b))

RandBits(g, bits) == Do(g, CRandBits(bits))

\* arr = [ ... ]: the caller builds a new array
MakeArray(v) ==
    /\ heap' = Collect(New(heap, v), rng, Alloc(heap))
    /\ arr' = Alloc(heap)
    /\ last' = [op |-> "array", g |-> "-", args |-> [v |-> v], ret |-> Undefined,
                threw |-> FALSE, pre |-> Pre]
    /\ calls' = calls + 1
    /\ UNCHANGED <<rng, ins, outs, phase>>

\* arr[i] = v: the caller writes into its own array
Mutate(i, v) ==
    /\ heap' = [heap EXCEPT ![arr] = Put(@, i, v)]
    /\ last' = [op |-> "mutate", g |-> "-", args |-> [i |-> i, v |-> v],
                ret |-> Undefined, threw |-> FALSE, pre |-> Pre]
    /\ calls' = calls + 1
    /\ UNCHANGED <<rng, arr, ins, outs, phase>>

-----------------------------------------------------------------------------
(* Initial states: the caller holds a seed array and has constructed G and  *)
(* H from seed arrays                                                       *)

Started(g, h) ==
    [heap |-> Collect(h.heap, [x \in Gens |-> IF x = "G" THEN g.this ELSE h.this], 1),
     rng  |-> [x \in Gens |-> IF x = "G" THEN g.this ELSE h.this]]

SecondOf(g) == Started(g, WELL(g.heap, Fresh, TRUE, 2, ZeroVec))

Start(seedG, seedH) ==
    SecondOf(WELL((1 :> seedG) @@ (2 :> seedH), Fresh, TRUE, 1, ZeroVec))

InitWith(seedG, seedH, ph) ==
    /\ heap = Start(seedG, seedH).heap
    /\ rng = Start(seedG, seedH).rng
    /\ arr = 1
    /\ ins = [g \in Gens |-> <<[op |-> "new", state |-> IF g = "G" THEN seedG ELSE seedH]>>]
    /\ outs = [g \in Gens |-> <<>>]
    /\ last = [op |-> "init", g |-> "-", args |-> Undefined, ret |-> Undefined,
               threw |-> FALSE,
               pre |-> [heap |-> Start(seedG, seedH).heap,
                        rng |-> Start(seedG, seedH).rng, arr |-> 1]]
    /\ calls = 0
    /\ phase = ph

-----------------------------------------------------------------------------
(* Spec: a program that uses the whole interface of one generator, G, and   *)
(* builds, passes, fetches and overwrites arrays                            *)

MaxCalls == 3

Vectors == {OneVec, MixedVec, ShortVec, LongVec}
Draws == {MixedVec, AllOnesVec}
Pointers == {Undefined, Num(0), Num(5), Num(32), Num(-1)}
Ranges == {<<5, 5>>, <<1, 10>>, <<-3, 3>>}
Widths == {3, 16}
Writes == {<<0, 7>>, <<31, -1>>}

Running == phase = "run" /\ calls < MaxCalls

Init == InitWith(MixedVec, ZeroVec, "run")

Next ==
    \/ \E v \in Vectors : Running /\ MakeArray(v)
    \/ \E w \in Writes : Running /\ Mutate(w[1], w[2])
    \/ Running /\ Construct("G")
    \/ \E d \in Draws : Running /\ ConstructDefault("G", d)
    \/ \E sp \in Pointers : Running /\ SetState("G", sp)
    \/ Running /\ GetState("G")
    \/ \E b \in BOOLEAN : Running /\ Rand("G", b)
    \/ \E b \in BOOLEAN : Running /\ Random("G", b)
    \/ \E ab \in Ranges : Running /\ RandInt("G", ab[1], ab[2])
    \/ \E k \in Widths : Running /\ RandBits("G", k)

Spec == Init /\ [][Next]_vars

-----------------------------------------------------------------------------
(* SpecExtract: a program that seeds G, optionally moves its pointer, and   *)
(* draws values                                                             *)

MaxSteps == 3

ExtractSeeds == {ZeroVec, OneVec, MixedVec, MaxVec, MinVec, AllOnesVec}
ExtractPointers == {Num(17), Num(31)}
ExtractRanges == {<<5, 5>>, <<1, 10>>, <<-3, 3>>, <<0, 2147483646>>}

Drawing == phase = "draw" /\ calls < MaxSteps

InitExtract == \E seed \in ExtractSeeds : InitWith(seed, ZeroVec, "draw")

NextExtract ==
    \/ \E sp \in ExtractPointers : Drawing /\ calls = 0 /\ SetState("G", sp)
    \/ \E b \in BOOLEAN : Drawing /\ Rand("G", b)
    \/ \E b \in BOOLEAN : Drawing /\ Random("G", b)
    \/ \E ab \in ExtractRanges : Drawing /\ RandInt("G", ab[1], ab[2])
    \/ \E k \in Widths : Drawing /\ RandBits("G", k)

SpecExtract == InitExtract /\ [][NextExtract]_vars

-----------------------------------------------------------------------------
(* SpecPair: a program that checks two generators against each other. G and *)
(* H, seeded differently, first serve calls of their own; then both import  *)
(* the caller's array with the same pointer, and H repeats every call G     *)
(* serves.                                                                  *)

PreCalls == 2
SyncCalls == 2

PairPointers == {Num(0), Num(7)}
PreWidths == {3, 16}

\* H serves the call G served last
Echo == phase = "echo" /\ Do("H", last.args)

InitPair == InitWith(MixedVec, OneVec, "pre")

NextPair ==
    \/ \E g \in Gens : phase = "pre" /\ calls < PreCalls /\ Rand(g, TRUE)
    \/ \E g \in Gens, k \in PreWidths : phase = "pre" /\ calls < PreCalls /\ RandBits(g, k)
    \/ \E sp \in PairPointers : phase = "pre" /\ SetState("G", sp)
    \/ Echo
    \/ \E b \in BOOLEAN : phase = "sync" /\ calls < SyncCalls /\ Rand("G", b)
    \/ \E b \in BOOLEAN : phase = "sync" /\ calls < SyncCalls /\ Random("G", b)
    \/ \E ab \in Ranges : phase = "sync" /\ calls < SyncCalls /\ RandInt("G", ab[1], ab[2])
    \/ \E k \in Widths : phase = "sync" /\ calls < SyncCalls /\ RandBits("G", k)

SpecPair == InitPair /\ [][NextPair]_vars

-----------------------------------------------------------------------------
(* SpecBits: a program that seeds G and draws chunks of several widths,     *)
(* with whole words and a re-import in between                              *)

MaxBitCalls == 4

BitSeeds == {MixedVec, AllOnesVec, MinVec}
BitWidths == {1, 3, 8, 16, 31}
BitPointers == {Num(9)}

Chunking == phase = "bits" /\ calls < MaxBitCalls

InitBits == \E seed \in BitSeeds : InitWith(seed, ZeroVec, "bits")

NextBits ==
    \/ \E k \in BitWidths : Chunking /\ RandBits("G", k)
    \/ Chunking /\ Rand("G", TRUE)
    \/ \E sp \in BitPointers : Chunking /\ SetState("G", sp)

SpecBits == InitBits /\ [][NextBits]_vars

-----------------------------------------------------------------------------
(* SpecSteps: a program that seeds G, may import the seed at another        *)
(* pointer or cut three bits first, and then calls rand() in a loop         *)

MaxRun == 34

StepSeeds == {ZeroVec, OneVec, MixedVec, AllOnesVec}
StepPointers == {Num(7), Num(17)}

Looping == phase = "steps" /\ calls < MaxRun

InitSteps == \E seed \in StepSeeds : InitWith(seed, ZeroVec, "steps")

NextSteps ==
    \/ \E sp \in StepPointers : Looping /\ calls = 0 /\ SetState("G", sp)
    \/ Looping /\ outs["G"] = <<>> /\ RandBits("G", 3)
    \/ Looping /\ Rand("G", FALSE)

SpecSteps == InitSteps /\ [][NextSteps]_vars

-----------------------------------------------------------------------------
(* SpecSnap: a program that hands the state of G over to H. G serves calls  *)
(* of its own, then the program takes G.get_state() and G._n, installs them *)
(* in H with set_state, and H repeats every call G serves from then on.     *)

WarmCalls == 2

SnapPointers == {Num(7), Num(32)}

Warming == phase = "warm" /\ calls < WarmCalls

\* H.set_state(arr, G._n), arr being what G.get_state() returned
Restore == phase = "snap" /\ SetState("H", Num(rng["G"]._n))

InitSnap == InitWith(MixedVec, OneVec, "warm")

NextSnap ==
    \/ Warming /\ Rand("G", TRUE)
    \/ Warming /\ RandBits("G", 3)
    \/ \E sp \in SnapPointers : Warming /\ SetState("G", sp)
    \/ phase = "warm" /\ GetState("G")
    \/ Restore
    \/ Echo
    \/ \E b \in BOOLEAN : phase = "sync" /\ calls < SyncCalls /\ Rand("G", b)
    \/ \E b \in BOOLEAN : phase = "sync" /\ calls < SyncCalls /\ Random("G", b)
    \/ \E ab \in Ranges : phase = "sync" /\ calls < SyncCalls /\ RandInt("G", ab[1], ab[2])

SpecSnap == InitSnap /\ [][NextSnap]_vars

-----------------------------------------------------------------------------
(* Properties                                                               *)

\* the state vector of generator g now, and before the last operation
Vector(g) == heap[rng[g]._state]
VectorBefore(g) == last.pre.heap[last.pre.rng[g]._state]

\* the low 31 bits of an int32, as a number
Low31(x) == IF x >= 0 THEN x ELSE x - MinInt32

\* C1: two generators that imported the same vector with the same pointer and
\* then served the same calls have returned the same values, whatever each
\* served before the import.
Determinism == ins["G"] = ins["H"] => outs["G"] = outs["H"]

\* C2: a set_state or a construction given a vector whose length is not 32
\* throws, and leaves every generator's vector, pointer and bit cache as they
\* were.
ValidationKeepsState ==
    (/\ last.op \in {"set_state", "new"}
     /\ last.op = "new" => last.args.hasState
     /\ Length(last.pre.heap[last.args.state]) # 32)
    => /\ last.threw
       /\ rng = last.pre.rng
       /\ \A g \in Gens : Vector(g) = VectorBefore(g)

\* C2 witness: a set_state that threw on a generator whose bit cache was in use.
ValidationWitness ==
    /\ last.op = "set_state"
    /\ last.threw
    /\ rng["G"].next_bit < 32
    /\ rng["G"]._n # 0

\* C3: after a successful set_state the bit cache is empty (offset 32).
ImportResetsCache ==
    (last.op = "set_state" /\ ~last.threw) => rng[last.g].next_bit = 32

\* C4: the state pointer of every generator is in 0..31.
PointerInRange == \A g \in Gens : rng[g]._n \in 0..31

\* C5: the state vector of every generator has exactly the 32 entries 0..31.
VectorHas32Entries ==
    \A g \in Gens : Length(Vector(g)) = 32 /\ DOMAIN Vector(g) = 0..31

\* C6: no generator's vector is the array the caller holds, nor another
\* generator's; so a write by the caller into its array (one it fetched with
\* get_state, or passed to set_state or the constructor) changes no generator.
CopyIsolation ==
    /\ \A g \in Gens : rng[g]._state # arr
    /\ rng["G"]._state # rng["H"]._state
    /\ last.op = "mutate" =>
          /\ rng = last.pre.rng
          /\ \A g \in Gens : Vector(g) = VectorBefore(g)

\* C6 witness: the caller overwrote an entry of an array that held the same
\* words as G's vector (fetched from G or passed to G), and G's vector now
\* differs from the caller's array.
CopyIsolationWitness ==
    /\ last.op = "mutate"
    /\ last.pre.heap[arr] = VectorBefore("G")
    /\ heap[arr] # Vector("G")

\* C7: random(false) is in [0, 1): num * (1 / den) is >= 0 and < 1. In double
\* arithmetic (2^31 - 1) * (1 / (2^31 - 1)) is exactly 1 and every smaller
\* num gives a product below 1, so the product is < 1 exactly when num < den.
RandomInUnitInterval ==
    (last.op = "random" /\ ~last.args.incNeg)
    => (0 <= last.ret.num /\ last.ret.num < last.ret.den)

\* C8: random(true) is in (-1, 1): -den < num < den.
RandomInOpenInterval ==
    (last.op = "random" /\ last.args.incNeg)
    => (-last.ret.den < last.ret.num /\ last.ret.num < last.ret.den)

\* C9: rand(false) is the raw word (the word stored at the new pointer) with
\* the sign bit cleared, in 0..2^31-1; rand(true) is the raw word itself, in
\* -2^31..2^31-1; and the other flag gives the same low 31 bits on the same
\* state.
RandRange ==
    last.op = "rand" =>
        LET raw == Vector(last.g)[rng[last.g]._n]
            other == rand(last.pre.heap, last.pre.rng[last.g], ~last.args.incNeg).ret
        IN  /\ last.args.incNeg =>
                (last.ret = raw /\ MinInt32 <= last.ret /\ last.ret <= positive_mask)
            /\ ~last.args.incNeg =>
                (/\ 0 <= last.ret /\ last.ret <= positive_mask
                 /\ last.ret = IF raw >= 0 THEN raw ELSE (raw + 2147483647) + 1)
            /\ Low31(other) = Low31(last.ret)

\* C9 witness: rand(false) on a state whose raw word is negative.
RandRangeWitness ==
    /\ last.op = "rand"
    /\ ~last.args.incNeg
    /\ Vector(last.g)[rng[last.g]._n] < 0

\* C10: randInt(a, b) with a <= b returns r with a <= r <= b, equal to
\* (rand(false) mod (1 + b - a)) + a for the raw word of exactly one transition
\* step; randInt(a, a) returns a.
RandIntRange ==
    last.op = "randInt" =>
        LET a == last.args.a
            b == last.args.b
            raw == Vector(last.g)[rng[last.g]._n]
            one == rand(last.pre.heap, last.pre.rng[last.g], FALSE)
        IN  /\ a <= last.ret /\ last.ret <= b
            /\ a = b => last.ret = a
            /\ last.ret = (Low31(raw) % (1 + b - a)) + a
            /\ rng[last.g] = one.this
            /\ Vector(last.g) = one.heap[rng[last.g]._state]

\* C10 witness: randInt over a range of several values returned one above a,
\* from a negative raw word.
RandIntWitness ==
    /\ last.op = "randInt"
    /\ last.args.a < last.args.b
    /\ last.ret > last.args.a
    /\ Vector(last.g)[rng[last.g]._n] < 0

\* bits off..off+bits-1 of the int32 word, as a number (off + bits <= 32,
\* 1 <= bits <= 31), by division and remainder on the unsigned value
Field(word, off, bits) ==
    LET lo == IF off = 31 THEN 0 ELSE Low31(word) \div (2^off)
        top == IF word < 0 /\ off + bits = 32 THEN 2^(31 - off) ELSE 0
    IN  (IF off + bits >= 31 THEN lo ELSE lo % (2^bits)) + top

\* the offset the last randBits call cut its chunk at
Unshift ==
    IF last.args.bits + last.pre.rng[last.g].next_bit <= 32
    THEN last.pre.rng[last.g].next_bit ELSE 0

\* C11: randBits(bits) with 1 <= bits <= 31 returns a value in 0..2^bits-1.
RandBitsRange ==
    last.op = "randBits" =>
        /\ 0 <= last.ret
        /\ IF last.args.bits = 31 THEN last.ret <= positive_mask
           ELSE last.ret < 2^(last.args.bits)

\* C11 witness: a chunk cut above bit 0 of a negative cached word.
RandBitsRangeWitness ==
    /\ last.op = "randBits"
    /\ rng[last.g].bit_state < 0
    /\ Unshift > 0

\* C12: randBits(bits) performs a transition step exactly when offset + bits
\* > 32. Otherwise the vector, the pointer and the cached word are unchanged
\* and the offset grows by bits; with a step, the state is that of one
\* rand(true), the cached word is its raw word and the offset is bits.
RandBitsAmortized ==
    last.op = "randBits" =>
        LET p == last.pre.rng[last.g]
            q == rng[last.g]
            one == rand(last.pre.heap, p, TRUE)
        IN  IF p.next_bit + last.args.bits <= 32
            THEN /\ Vector(last.g) = VectorBefore(last.g)
                 /\ q._n = p._n
                 /\ q.bit_state = p.bit_state
                 /\ q.next_bit = p.next_bit + last.args.bits
            ELSE /\ Vector(last.g) = one.heap[p._state]
                 /\ q._n = (p._n + 31) % 32
                 /\ q.bit_state = Vector(last.g)[q._n]
                 /\ q.next_bit = last.args.bits

\* C12 witness: a request that ended exactly at bit 32 and was served from
\* the cache.
RandBitsAmortizedWitness ==
    /\ last.op = "randBits"
    /\ last.pre.rng[last.g].next_bit + last.args.bits = 32
    /\ rng[last.g]._n = last.pre.rng[last.g]._n

\* C16: the offset of every generator is in 0..32; it is 32 after
\* construction, and at least bits and at most 32 after randBits(bits).
OffsetInRange ==
    /\ \A g \in Gens : rng[g].next_bit \in 0..32
    /\ last.op \in {"init", "new"} => \A g \in Gens : rng[g].next_bit = 32
    /\ last.op = "randBits" =>
          (last.args.bits <= rng[last.g].next_bit /\ rng[last.g].next_bit <= 32)

\* C16 witness: a request that did not fit the rest of the cache.
OffsetInRangeWitness ==
    /\ last.op = "randBits"
    /\ last.pre.rng[last.g].next_bit < 32
    /\ last.pre.rng[last.g].next_bit + last.args.bits > 32

\* the bit positions the chunks of the calls k..Len(o) fill when each chunk
\* is w bits wide and they are laid side by side
RECURSIVE Laid(_, _, _)
Laid(o, k, w) ==
    IF k > Len(o) THEN {}
    ELSE {i + w * (k - 1) : i \in ToBits(o[k])} \cup Laid(o, k + 1, w)

\* C18: a randBits call returns the bits [offset, offset + bits) of the
\* cached word (also of a negative one), offset being 0 at a refill and the
\* end of the previous chunk otherwise; and the 32/w calls of width w that
\* follow a construction give back the raw word.
ChunksAreFields ==
    /\ last.op = "randBits" =>
          /\ last.ret = Field(rng[last.g].bit_state, Unshift, last.args.bits)
          /\ rng[last.g].next_bit = Unshift + last.args.bits
    /\ \A w \in {8, 16} :
          (/\ ins["G"][1].op = "new"
           /\ Len(outs["G"]) = 32 \div w
           /\ \A k \in 2..Len(ins["G"]) : ins["G"][k] = CRandBits(w))
          => Laid(outs["G"], 1, w) = ToBits(rng["G"].bit_state)

\* C18 witness: four chunks of 8 bits after a construction, cut from a
\* negative raw word.
ChunksAreFieldsWitness ==
    /\ ins["G"][1].op = "new"
    /\ Len(outs["G"]) = 4
    /\ \A k \in 2..Len(ins["G"]) : ins["G"][k] = CRandBits(8)
    /\ rng["G"].bit_state < 0
    /\ rng["G"].next_bit = 32

\* C13: a generator seeded with 32 zero words at pointer 0 keeps an all-zero
\* vector, and every rand(false) and a first randBits(3) return 0.
ZeroIsFixed ==
    ins["G"][1] = [op |-> "new", state |-> ZeroVec] =>
        /\ Vector("G") = ZeroVec
        /\ \A k \in 1..Len(outs["G"]) : outs["G"][k] = 0

\* C13 witness: the zero-seeded generator after a randBits(3) and a full
\* round of rand(false).
ZeroIsFixedWitness ==
    /\ ins["G"][1] = [op |-> "new", state |-> ZeroVec]
    /\ Len(outs["G"]) = 33
    /\ ins["G"][2] = CRandBits(3)

\* C14: on the vector that is zero except word 3 = 1, at pointer 0, the first
\* rand(false) returns 129 and leaves pointer 31, slot 0 = 1 and slot 31 = 129.
ReferenceVector2 ==
    ins["G"] = <<[op |-> "new", state |-> OneVec], CRand(FALSE)>> =>
        /\ outs["G"] = <<129>>
        /\ rng["G"]._n = 31
        /\ Vector("G")[0] = 1
        /\ Vector("G")[31] = 129

\* C14 witness: that first call has been made.
ReferenceVector2Witness ==
    /\ ins["G"] = <<[op |-> "new", state |-> OneVec], CRand(FALSE)>>
    /\ last.op = "rand"

\* the pointer G was constructed or last imported with
StartPointer ==
    IF ins["G"][1].op = "set_state" THEN OrZero(ins["G"][1].sp) ELSE 0

\* C17: a rand call at a pointer n in 0..31 changes only the slots n and
\* (n + 31) mod 32, leaves the cached word and the offset alone and moves the
\* pointer to (n + 31) mod 32; after 32 steps the pointer is where it started.
FrameOfStep ==
    /\ (last.op = "rand" /\ last.pre.rng[last.g]._n \in 0..31) =>
          LET p == last.pre.rng[last.g]
              q == rng[last.g]
          IN  /\ DOMAIN Vector(last.g) = DOMAIN VectorBefore(last.g)
              /\ \A i \in DOMAIN Vector(last.g) \ {p._n, (p._n + 31) % 32} :
                    Vector(last.g)[i] = VectorBefore(last.g)[i]
              /\ q.bit_state = p.bit_state
              /\ q.next_bit = p.next_bit
              /\ q._n = (p._n + 31) % 32
    /\ Len(outs["G"]) = 32 => rng["G"]._n = StartPointer

\* C17 witness: the 32nd step after an import at pointer 7, with a part-used
\* non-zero word in the cache.
FrameOfStepWitness ==
    /\ last.op = "rand"
    /\ Len(outs["G"]) = 32
    /\ StartPointer = 7
    /\ rng["G"].next_bit = 3
    /\ rng["G"].bit_state # 0

\* bit j (0..31) of the two's complement int32 x, as 0 or 1
Bit(x, j) ==
    IF j = 31 THEN (IF x < 0 THEN 1 ELSE 0) ELSE (Low31(x) \div (2^j)) % 2

\* bit j of arith_shr(x, k): the sign bit is replicated into the vacated bits
AshrBit(x, k, j) == Bit(x, IF j + k > 31 THEN 31 ELSE j + k)

\* bit j of shl(x, k): zeros enter from the right
ShlBit(x, k, j) == IF j < k THEN 0 ELSE Bit(x, j - k)

\* the int32 with the given bits (a function from 0..31 to {0, 1})
RECURSIVE Weigh(_, _)
Weigh(f, j) == IF j < 0 THEN 0 ELSE f[j] * (2^j) + Weigh(f, j - 1)

Word(f) == IF f[31] = 1 THEN (Weigh(f, 30) - positive_mask) - 1 ELSE Weigh(f, 30)

\* one step of the WELL-1024a recurrence on the vector S at pointer n, bit by
\* bit: the new vector, the new pointer and the raw output
Recurrence(S, n) ==
    LET z0 == S[(n + 31) % 32]
        a  == S[(n + 3) % 32]
        b  == S[(n + 24) % 32]
        c  == S[(n + 10) % 32]
        z1 == [j \in 0..31 |-> (Bit(z0, j) + Bit(a, j) + AshrBit(a, 8, j)) % 2]
        z2 == [j \in 0..31 |->
                 (Bit(b, j) + ShlBit(b, 19, j) + Bit(c, j) + ShlBit(c, 14, j)) % 2]
        first == Word([j \in 0..31 |-> (z1[j] + z2[j]) % 2])
        second == Word([j \in 0..31 |->
                     (Bit(z0, j) + ShlBit(z0, 11, j)
                        + z1[j] + (IF j < 7 THEN 0 ELSE z1[j - 7])
                        + z2[j] + (IF j < 13 THEN 0 ELSE z2[j - 13])) % 2])
        m == (n + 31) % 32
    IN  [S |-> [i \in 0..31 |-> IF i = m THEN second
                                ELSE IF i = n THEN first ELSE S[i]],
         n |-> m, raw |-> second]

SnapshotRoundTrip ==
    phase = "sync" =>
        /\ slice(Vector("G")) = slice(Vector("H"))
        /\ rng["G"]._n = rng["H"]._n
        /\ last.op \in {"rand", "random", "randInt"} =>
              last.ret = outs["G"][Len(outs["G"])]

====
